---- MODULE Spec2Model ----
(***************************************************************************)
(* A model of gbkr-com/id3: the View cursor abstraction (views.go), the    *)
(* entropy engine and the recursive ID3 learner (learn.go) and the         *)
(* decision tree classifier (decisions.go).                                *)
(*                                                                         *)
(* Go slices are indexed from 0 and TLA+ sequences from 1: At(s, i) reads  *)
(* the Go element s[i], so every index of the model (next, col, drop) has  *)
(* the value it has in the program.                                        *)
(***************************************************************************)
EXTENDS Integers, Sequences, FiniteSets, TLC

VARIABLES
    data,       \* baseView.data: the header row followed by the data rows
    next,       \* baseView.next: the one cursor, shared by every derived view
    view,       \* the view the reader holds (base, or a chain of Select/Drop)
    started,    \* the reader has called First on its view
    got,        \* the rows the reader's Next calls returned since its last First
    ended,      \* a Next of the reader returned nil since its last First
    late,       \* a Next of the reader returned a row after one returned nil
    disturbed,  \* a call on another view changed the rows ahead of the reader
    prev,       \* the rows of the reader's previous undisturbed complete pass
    panic,      \* the message of the panic that ended the program, or ""
    tree,       \* what Learn(view, class) came to, once it has been called
    answers,    \* what tree.Decide(data) came to on the training table
    verdict,    \* what tree.Decide came to on one row that is to be classified
    liks        \* the results of the Likelihood calls made so far

vars == <<data, next, view, started, got, ended, late, disturbed, prev, panic,
          tree, answers, verdict, liks>>

----------------------------------------------------------------------------
(* Bounds of the model. *)

\* The most data rows of a table the view operations are run on.
MaxViewRows == 2

\* The most Select/Drop derivations stacked on the base view.
MaxDerive == 2

\* The field values of attribute columns and of the class column.
Values == {"x", "y"}
Labels == {"no", "yes"}

\* The header of the tables the view operations are run on.
ViewHeader == <<"a", "play">>

\* Column names a caller may pass: the visible ones, the blank name of a
\* hidden column, and a name no table has.
ColumnNames == {"a", "play", "", "q"}

----------------------------------------------------------------------------
(* Go values. *)

\* The nil row ([]string(nil)); no row of a table is empty.
Nil == <<>>

At(s, i) == s[i + 1]

\* find's panic, as the index it never returns.
NotFound == -1

RECURSIVE findFrom(_, _, _)
findFrom(slice, x, i) ==
    IF i = Len(slice) THEN NotFound
    ELSE IF At(slice, i) = x THEN i
    ELSE findFrom(slice, x, i + 1)

\* find(slice, x): the first index holding x; NotFound stands for the panic
\* "id3: 'x'not in slice".
find(slice, x) == findFrom(slice, x, 0)

----------------------------------------------------------------------------
(* Views.  A view is a record: the base view, or a selectView / dropView   *)
(* holding its parent.  Only the base view has a cursor (the variable      *)
(* next); the operators take the table d and the cursor n explicitly.      *)

BaseView == [kind |-> "base"]

\* Columns() with the name at index drop removed rather than blanked.
dropColumnsShifting(cols, drop) ==
    [j \in 1..(Len(cols) - 1) |-> IF j <= drop THEN cols[j] ELSE cols[j + 1]]

\* dropView.Columns: a copy of the parent's names with c[d.drop] = "".
dropColumns(cols, drop) == [cols EXCEPT ![drop + 1] = ""]

RECURSIVE Columns(_, _)
Columns(v, d) ==
    IF v.kind = "base" THEN At(d, 0)
    ELSE IF v.kind = "select" THEN Columns(v.parent, d)
    ELSE dropColumns(Columns(v.parent, d), v.drop)

\* selectView.First that forgets to delegate to its parent.
firstKeepingCursor(n) == n

\* baseView.First: b.next = 1.
baseFirst(n) == 1

\* First() on any view: select and drop views delegate to the parent.
RECURSIVE First(_, _)
First(v, n) ==
    IF v.kind = "base" THEN baseFirst(n) ELSE First(v.parent, n)

\* baseView.Next with the end test one row early: `b.next == len(b.data)-1`.
baseNextOffByOne(d, n) ==
    LET n1 == IF n = 0 THEN 1 ELSE n
    IN  IF n1 >= Len(d) - 1 THEN [row |-> Nil, next |-> n1]
        ELSE [row |-> At(d, n1), next |-> n1 + 1]

\* baseView.Next: the row at the cursor and the cursor after the call.
baseNext(d, n) ==
    LET n1 == IF n = 0 THEN 1 ELSE n
    IN  IF n1 = Len(d) THEN [row |-> Nil, next |-> n1]
        ELSE [row |-> At(d, n1), next |-> n1 + 1]

\* The test of selectView.Next, accepting every row.
selectMatchesAll(row, col, val) == TRUE

\* The test of selectView.Next: row[s.col] == s.val.
selectMatches(row, col, val) == At(row, col) = val

\* Next() on a view with the base cursor at n: the row returned (or Nil)
\* and the base cursor afterwards.  selectView.Next loops on its parent
\* until a row matches or the parent is exhausted.
RECURSIVE Next(_, _, _)
Next(v, d, n) ==
    IF v.kind = "base" THEN baseNext(d, n)
    ELSE LET r == Next(v.parent, d, n)
         IN  IF v.kind = "drop" THEN r
             ELSE IF r.row = Nil THEN r
             ELSE IF selectMatches(r.row, v.col, v.val) THEN r
             ELSE Next(v, d, r.next)

\* v.Select(column, value); the caller checks find did not panic.
Select(v, d, column, value) ==
    [kind |-> "select", parent |-> v, col |-> find(Columns(v, d), column),
     val |-> value]

\* v.Drop(column); the caller checks find did not panic.
Drop(v, d, column) ==
    [kind |-> "drop", parent |-> v, drop |-> find(Columns(v, d), column)]

RECURSIVE Depth(_)
Depth(v) == IF v.kind = "base" THEN 0 ELSE 1 + Depth(v.parent)

\* The rows repeated Next calls return from cursor n until nil.
RECURSIVE Drain(_, _, _)
Drain(v, d, n) ==
    LET r == Next(v, d, n)
    IN  IF r.row = Nil THEN <<>> ELSE <<r.row>> \o Drain(v, d, r.next)

----------------------------------------------------------------------------
(* float64 values.  A probability count/total is the exact ratio           *)
(* [num, den]; an entropy is the exact fraction num/den counted in units   *)
(* of 1/Scale, with log2 taken from a table that is additive over          *)
(* products (log2(4) = 2*log2(2), log2(6) = log2(2) + log2(3)), so that    *)
(* two entropies compare equal exactly when the real numbers do.           *)

Scale == 10 ^ 5

\* math.Log2 of a row count, in units of 1/Scale.
log2(k) ==
    CASE k = 1 -> 0
      [] k = 2 -> Scale
      [] k = 3 -> 158496
      [] k = 4 -> 2 * Scale
      [] k = 5 -> 232193
      [] k = 6 -> Scale + 158496
      [] k = 7 -> 280735
      [] k = 8 -> 3 * Scale

RECURSIVE gcd(_, _)
gcd(a, b) == IF b = 0 THEN a ELSE gcd(b, a % b)

abs(a) == IF a < 0 THEN -a ELSE a

reduce(f) ==
    LET g == gcd(abs(f.num), f.den)
    IN  [num |-> f.num \div g, den |-> f.den \div g]

Zero == [num |-> 0, den |-> 1]

add(f, g) == reduce([num |-> f.num * g.den + g.num * f.den, den |-> f.den * g.den])
sub(f, g) == reduce([num |-> f.num * g.den - g.num * f.den, den |-> f.den * g.den])
mul(f, g) == reduce([num |-> f.num * g.num, den |-> f.den * g.den])
greater(f, g) == f.num * g.den > g.num * f.den

----------------------------------------------------------------------------
(* learn.go: Likelihood, Entropy, TotalEntropy, AverageEntropy.            *)

\* The cursor after a full pass (First, then Next until nil): baseView.Next
\* stops at len(data).
Exhausted(d) == Len(d)

\* `for k, v := range distinct`: the keys of the map in the order the
\* runtime happens to iterate them, here the order they have in ord.
rangeMap(keys, ord) == SelectSeq(ord, LAMBDA k : k \in keys)

\* sort.Slice with less(i, j) = sorted[i].Probability > sorted[j].Probability:
\* for a slice this short an insertion sort, which moves an element left
\* only past elements of strictly smaller probability.
RECURSIVE sortSlice(_)
sortSlice(s) ==
    IF Len(s) <= 1 THEN s
    ELSE LET e == s[Len(s)]
             t == sortSlice(SubSeq(s, 1, Len(s) - 1))
             Stays(x) == ~greater(e.Probability, x.Probability)
         IN  SelectSeq(t, Stays) \o <<e>> \o SelectSeq(t, LAMBDA x : ~Stays(x))

\* Likelihood(view, column), the column being one find locates: one pass
\* counting each distinct value, then the (value, probability) pairs sorted
\* by decreasing probability.
Likelihood(v, column, d, ord) ==
    LET i == find(Columns(v, d), column)
        rows == Drain(v, d, First(v, Exhausted(d)))
        total == Len(rows)
        keys == {At(rows[r], i) : r \in 1..total}
        count(k) == Cardinality({r \in 1..total : At(rows[r], i) = k})
        order == rangeMap(keys, ord)
    IN  sortSlice([j \in 1..Len(order) |->
                     [Value |-> order[j],
                      Probability |-> [num |-> count(order[j]), den |-> total]]])

\* Entropy(p): 0 for p == 0 and p == 1, else -p * log2(p).
Entropy(p) ==
    IF p.num = 0 \/ p.num = p.den THEN Zero
    ELSE reduce([num |-> p.num * (log2(p.den) - log2(p.num)), den |-> p.den])

RECURSIVE sumEntropy(_, _)
sumEntropy(ds, k) ==
    IF k = Len(ds) THEN Zero
    ELSE add(Entropy(At(ds, k).Probability), sumEntropy(ds, k + 1))

\* TotalEntropy(view, class)
TotalEntropy(v, class, d, ord) == sumEntropy(Likelihood(v, class, d, ord), 0)

RECURSIVE sumAverage(_, _, _, _, _, _, _)
sumAverage(v, attribute, class, d, ord, ds, k) ==
    IF k = Len(ds) THEN Zero
    ELSE add(mul(At(ds, k).Probability,
                 TotalEntropy(Select(v, d, attribute, At(ds, k).Value), class, d, ord)),
             sumAverage(v, attribute, class, d, ord, ds, k + 1))

\* AverageEntropy(view, attribute, class), both columns being ones find locates.
AverageEntropy(v, attribute, class, d, ord) ==
    sumAverage(v, attribute, class, d, ord, Likelihood(v, attribute, d, ord), 0)

----------------------------------------------------------------------------
(* decisions.go: Decision and Case; learn.go: Learn.                       *)

\* The depth at which the model stops following Learn's recursion and
\* reports the goroutine's stack as exhausted.
MaxDepth == 4

StackOverflow == "fatal error: stack overflow"
NilDereference == "invalid memory address or nil pointer dereference"
notInSlice(x) == "id3: '" \o x \o "'not in slice"

\* A *Decision: err is "" for a Decision that was built.
Decision(column, cases) == [err |-> "", Column |-> column, Cases |-> cases]
\* A call that ended in a panic or a fatal error instead of returning.
Failure(msg) == [err |-> msg, Column |-> "", Cases |-> <<>>]
\* The nil *Decision of a Case that holds a class.
NilDecision == Failure("nil")

\* `gain[i] > maxGain` taken as >=.
gainBeatsOrTies(gain, maxGain) == ~greater(maxGain, gain)

\* `if gain[i] > maxGain`
gainBeats(gain, maxGain) == greater(gain, maxGain)

\* The loop of Learn over cols from index i on: the running maximum gain and
\* its column.
RECURSIVE maxGainLoop(_, _, _, _, _, _, _, _)
maxGainLoop(v, class, d, ord, h, i, maxGain, maxColumn) ==
    LET cols == Columns(v, d)
    IN  IF i = Len(cols) THEN [maxGain |-> maxGain, maxColumn |-> maxColumn]
        ELSE IF At(cols, i) = class \/ At(cols, i) = ""
        THEN maxGainLoop(v, class, d, ord, h, i + 1, maxGain, maxColumn)
        ELSE LET gain == sub(h, AverageEntropy(v, At(cols, i), class, d, ord))
             IN  IF gainBeats(gain, maxGain)
                 THEN maxGainLoop(v, class, d, ord, h, i + 1, gain, At(cols, i))
                 ELSE maxGainLoop(v, class, d, ord, h, i + 1, maxGain, maxColumn)

\* The column Learn decides on: maxGain starts at -1.0 and maxColumn at "".
maxColumnOf(v, class, d, ord) ==
    maxGainLoop(v, class, d, ord, TotalEntropy(v, class, d, ord), 0,
                [num |-> -Scale, den |-> 1], "").maxColumn

\* The class of a terminal case read from the first field of the row.
leafClassFirstField(row, cols, class) == At(row, 0)

\* c.Class = row[find(subview.Columns(), class)]
leafClass(row, cols, class) == At(row, find(cols, class))

\* Learn(view, class) with the base cursor at n, at recursion depth depth:
\* the Decision returned (or the failure) and the base cursor afterwards.
\* learnCases is its loop over the Likelihood of maxColumn from index k on.
RECURSIVE Learn(_, _, _, _, _, _)
RECURSIVE learnCases(_, _, _, _, _, _, _, _, _, _)

learnCases(v, class, d, ord, depth, maxColumn, ds, k, cases, n) ==
    IF k = Len(ds) THEN [dec |-> Decision(maxColumn, cases), next |-> n]
    ELSE LET subview == Select(v, d, maxColumn, At(ds, k).Value)
             subh == TotalEntropy(subview, class, d, ord)
         IN  IF subh = Zero
             THEN LET r == Next(subview, d, First(subview, Exhausted(d)))
                      c == [Value |-> At(ds, k).Value,
                            Class |-> leafClass(r.row, Columns(subview, d), class),
                            Decide |-> NilDecision]
                  IN  learnCases(v, class, d, ord, depth, maxColumn, ds, k + 1,
                                 Append(cases, c), r.next)
             ELSE LET inner == Learn(Drop(subview, d, maxColumn), class, d,
                                   Exhausted(d), ord, depth + 1)
                      c == [Value |-> At(ds, k).Value, Class |-> "",
                            Decide |-> inner.dec]
                  IN  IF inner.dec.err # "" THEN inner
                      ELSE learnCases(v, class, d, ord, depth, maxColumn, ds, k + 1,
                                      Append(cases, c), inner.next)

Learn(v, class, d, n, ord, depth) ==
    IF depth > MaxDepth THEN [dec |-> Failure(StackOverflow), next |-> n]
    ELSE IF find(Columns(v, d), class) = NotFound
    THEN [dec |-> Failure(notInSlice(class)), next |-> n]
    ELSE LET maxColumn == maxColumnOf(v, class, d, ord)
         IN  IF find(Columns(v, d), maxColumn) = NotFound
             THEN [dec |-> Failure(notInSlice(maxColumn)), next |-> Exhausted(d)]
             ELSE learnCases(v, class, d, ord, depth, maxColumn,
                             Likelihood(v, maxColumn, d, ord), 0, <<>>, Exhausted(d))

----------------------------------------------------------------------------
(* decisions.go: Decide and decide.                                        *)

noRule(column) == "id3: no rule for column " \o column

\* decide falling back on the class of the first case.
firstCaseFor(dec) ==
    [err |-> "", class |-> IF dec.Cases = <<>> THEN "" ELSE dec.Cases[1].Class]

\* The end of decide's loop over d.Cases: panic("id3: no rule for column ...").
noCaseFor(dec) == [err |-> noRule(dec.Column), class |-> ""]

RECURSIVE matchFrom(_, _, _)
matchFrom(cases, value, k) ==
    IF k = Len(cases) THEN NotFound
    ELSE IF value = At(cases, k).Value THEN k
    ELSE matchFrom(cases, value, k + 1)

\* d.decide(data, at): the class, or the panic that ends the call.
RECURSIVE decide(_, _, _)
decide(dec, d, at) ==
    IF dec = NilDecision THEN [err |-> NilDereference, class |-> ""]
    ELSE LET i == find(At(d, 0), dec.Column)
         IN  IF i = NotFound THEN [err |-> notInSlice(dec.Column), class |-> ""]
             ELSE LET k == matchFrom(dec.Cases, At(At(d, at), i), 0)
                  IN  IF k = NotFound THEN noCaseFor(dec)
                      ELSE IF At(dec.Cases, k).Class # ""
                      THEN [err |-> "", class |-> At(dec.Cases, k).Class]
                      ELSE decide(At(dec.Cases, k).Decide, d, at)

\* d.Decide(data) from row i on: the classes of the rows, or the first panic.
RECURSIVE decideFrom(_, _, _, _)
decideFrom(dec, d, i, result) ==
    IF i = Len(d) THEN [err |-> "", result |-> result]
    ELSE LET r == decide(dec, d, i)
         IN  IF r.err # "" THEN [err |-> r.err, result |-> result]
             ELSE decideFrom(dec, d, i + 1, Append(result, r.class))

Decide(dec, d) == decideFrom(dec, d, 1, <<>>)

----------------------------------------------------------------------------
(* Tables. *)

RECURSIVE SeqsUpTo(_, _)
SeqsUpTo(S, n) ==
    IF n = 0 THEN {<<>>}
    ELSE LET shorter == SeqsUpTo(S, n - 1)
         IN  shorter \cup {Append(s, e) : s \in {t \in shorter : Len(t) = n - 1}, e \in S}

\* The values the fields at index i take: the class column is the last one.
FieldValues(header, i) == IF i = Len(header) - 1 THEN Labels ELSE Values

\* The most data rows of a training table.
MaxRows == 3

\* The class column of every table.
Class == "play"

\* The training tables: two attributes and a class, one attribute and a
\* class whose label may be the empty string, and a class alone.
Shapes ==
    {[header |-> <<"a", "b", "play">>, labels |-> Labels],
     [header |-> <<"a", "play">>, labels |-> {"", "no"}],
     [header |-> <<"play">>, labels |-> Labels]}

RowsOf(header, values, labels) ==
    {r \in [1..Len(header) -> values \cup labels] :
        /\ r[Len(header)] \in labels
        /\ \A i \in 1..(Len(header) - 1) : r[i] \in values}

LearnTables ==
    UNION {{<<sh.header>> \o rows :
              rows \in SeqsUpTo(RowsOf(sh.header, Values, sh.labels), MaxRows)} :
           sh \in Shapes}

\* The rows that are classified: a field may hold a value no training row has.
ProbeRows(header) == RowsOf(header, Values \cup {"z"}, {"no"})

\* The orders in which the runtime may iterate a map of column values: a
\* column of these tables holds at most two distinct values, and the two
\* orders put every two values both ways round.
Strings == <<"", "no", "yes", "x", "y">>
Orders == {Strings, [i \in 1..Len(Strings) |-> Strings[Len(Strings) + 1 - i]]}

\* The most Likelihood calls of one run.
MaxCalls == 2

\* The tables Read can return for a CSV text with header ViewHeader.
ViewRows == {<<a, c>> : a \in Values, c \in Labels}
ViewTables == {<<ViewHeader>> \o rows : rows \in SeqsUpTo(ViewRows, MaxViewRows)}

learnt == <<tree, answers, verdict, liks>>

\* No call has been made yet.
NotCalled == [called |-> FALSE]

----------------------------------------------------------------------------
(* The view operations as actions. *)

\* Read: a baseView on the parsed table with next = 1.
InitViews ==
    /\ data \in ViewTables
    /\ next = 1
    /\ view = BaseView
    /\ started = FALSE
    /\ got = <<>>
    /\ ended = FALSE
    /\ late = FALSE
    /\ disturbed = FALSE
    /\ prev = [some |-> FALSE, rows |-> <<>>]
    /\ panic = ""
    /\ tree = NotCalled
    /\ answers = NotCalled
    /\ verdict = NotCalled
    /\ liks = <<>>

Building == panic = "" /\ ~started /\ Depth(view) < MaxDerive

\* view = view.Select(column, value)
DoSelect ==
    /\ Building
    /\ \E column \in ColumnNames :
         LET i == find(Columns(view, data), column)
         IN  IF i = NotFound
             THEN /\ panic' = notInSlice(column)
                  /\ view' = view
             ELSE /\ \E value \in FieldValues(At(data, 0), i) :
                       view' = Select(view, data, column, value)
                  /\ panic' = panic
    /\ UNCHANGED <<data, next, started, got, ended, late, disturbed, prev, learnt>>

\* view = view.Drop(column)
DoDrop ==
    /\ Building
    /\ \E column \in ColumnNames :
         IF find(Columns(view, data), column) = NotFound
         THEN /\ panic' = notInSlice(column)
              /\ view' = view
         ELSE /\ view' = Drop(view, data, column)
              /\ panic' = panic
    /\ UNCHANGED <<data, next, started, got, ended, late, disturbed, prev, learnt>>

\* view.First(), by the reader.
DoFirst ==
    /\ panic = ""
    /\ next' = First(view, next)
    /\ started' = TRUE
    /\ prev' = IF started /\ ended /\ ~disturbed /\ ~late
               THEN [some |-> TRUE, rows |-> got]
               ELSE IF started /\ got = <<>> /\ ~ended /\ ~disturbed
               THEN prev
               ELSE [some |-> FALSE, rows |-> <<>>]
    /\ got' = <<>>
    /\ ended' = FALSE
    /\ late' = FALSE
    /\ disturbed' = FALSE
    /\ UNCHANGED <<data, view, panic, learnt>>

\* view.Next(), by the reader.  The trace got is kept no longer than the
\* table, which bounds the runs in which other views rewind the cursor.
DoNext ==
    /\ panic = ""
    /\ started
    /\ Len(got) < Len(data)
    /\ LET r == Next(view, data, next)
       IN  /\ next' = r.next
           /\ got' = IF r.row = Nil THEN got ELSE Append(got, r.row)
           /\ ended' = (ended \/ r.row = Nil)
           /\ late' = (late \/ (ended /\ r.row # Nil))
    /\ UNCHANGED <<data, view, started, disturbed, prev, panic, learnt>>

\* The views another reader can derive from the reader's parent view (or
\* from the base view, when the reader holds the base view itself).
Siblings ==
    LET p == IF view.kind = "base" THEN view ELSE view.parent
        cols == Columns(p, data)
        found == {c \in ColumnNames : find(cols, c) # NotFound}
    IN  UNION {{Select(p, data, c, x) : x \in FieldValues(At(data, 0), find(cols, c))} : c \in found}
        \cup {Drop(p, data, c) : c \in found}

\* w.First() on a sibling view w, by another reader.
OtherFirst ==
    /\ panic = ""
    /\ started
    /\ ~disturbed
    /\ \E w \in Siblings :
         /\ next' = First(w, next)
         /\ disturbed' = (disturbed \/ Drain(view, data, next') # Drain(view, data, next))
    /\ UNCHANGED <<data, view, started, got, ended, late, prev, panic, learnt>>

\* w.Next() on a sibling view w, by another reader.
OtherNext ==
    /\ panic = ""
    /\ started
    /\ ~disturbed
    /\ \E w \in Siblings :
         /\ next' = Next(w, data, next).next
         /\ disturbed' = (disturbed \/ Drain(view, data, next') # Drain(view, data, next))
    /\ UNCHANGED <<data, view, started, got, ended, late, prev, panic, learnt>>

----------------------------------------------------------------------------
(* Learning and classifying as actions. *)

\* Read: a baseView on a training table.
InitLearn ==
    /\ data \in LearnTables
    /\ next = 1
    /\ view = BaseView
    /\ started = FALSE
    /\ got = <<>>
    /\ ended = FALSE
    /\ late = FALSE
    /\ disturbed = FALSE
    /\ prev = [some |-> FALSE, rows |-> <<>>]
    /\ panic = ""
    /\ tree = NotCalled
    /\ answers = NotCalled
    /\ verdict = NotCalled
    /\ liks = <<>>

cursor == <<started, got, ended, late, disturbed, prev>>

\* tree = Learn(view, "play")
DoLearn ==
    /\ panic = ""
    /\ ~tree.called
    /\ \E ord \in Orders :
         LET r == Learn(view, Class, data, next, ord, 1)
         IN  /\ tree' = [called |-> TRUE, dec |-> r.dec]
             /\ next' = r.next
             /\ panic' = r.dec.err
    /\ UNCHANGED <<data, view, cursor, answers, verdict, liks>>

\* answers = tree.Decide(data), on the training table itself.
DoDecide ==
    /\ panic = ""
    /\ tree.called
    /\ ~answers.called
    /\ LET r == Decide(tree.dec, data)
       IN  /\ answers' = [called |-> TRUE, err |-> r.err, result |-> r.result]
           /\ panic' = r.err
    /\ UNCHANGED <<data, next, view, cursor, tree, verdict, liks>>

\* verdict = tree.Decide([][]string{header, row}), on one row.
DoClassify ==
    /\ panic = ""
    /\ tree.called
    /\ ~verdict.called
    /\ \E row \in ProbeRows(At(data, 0)) :
         LET r == Decide(tree.dec, <<At(data, 0), row>>)
         IN  /\ verdict' = [called |-> TRUE, row |-> row, err |-> r.err,
                            result |-> r.result]
             /\ panic' = r.err
    /\ UNCHANGED <<data, next, view, cursor, tree, answers, liks>>

NextLearn == DoLearn

\* Learning alone.
SpecLearn == InitLearn /\ [][NextLearn]_vars

NextDecide == DoLearn \/ DoDecide \/ DoClassify

\* Learning, then classifying the training rows and further rows.
SpecDecide == InitLearn /\ [][NextDecide]_vars

\* Likelihood(view, column)
DoLikelihood ==
    /\ panic = ""
    /\ Len(liks) < MaxCalls
    /\ \E column \in ColumnNames \cup {"b"}, ord \in Orders :
         IF find(Columns(view, data), column) = NotFound
         THEN /\ panic' = notInSlice(column)
              /\ UNCHANGED <<next, liks>>
         ELSE /\ liks' = Append(liks, [column |-> column,
                                       sorted |-> Likelihood(view, column, data, ord)])
              /\ next' = Exhausted(data)
              /\ panic' = panic
    /\ UNCHANGED <<data, view, cursor, tree, answers, verdict>>

NextLikelihood == DoLikelihood

SpecLikelihood == InitLearn /\ [][NextLikelihood]_vars

NextViews == DoSelect \/ DoDrop \/ DoFirst \/ DoNext

\* One reader: a view is derived, then reset and consumed any number of times.
SpecViews == InitViews /\ [][NextViews]_vars

NextShared == DoSelect \/ DoDrop \/ DoFirst \/ DoNext \/ OtherFirst \/ OtherNext

\* The reader, and between its calls the calls of readers of sibling views.
SpecShared == InitViews /\ [][NextShared]_vars

----------------------------------------------------------------------------
(* What the claims speak of. *)

\* The rows of a view by its definition: the data rows of the table that
\* pass every selection of the chain, in the table's order.
RECURSIVE RowsIn(_, _)
RowsIn(v, d) ==
    IF v.kind = "base" THEN SubSeq(d, 2, Len(d))
    ELSE IF v.kind = "drop" THEN RowsIn(v.parent, d)
    ELSE SelectSeq(RowsIn(v.parent, d), LAMBDA r : At(r, v.col) = v.val)

\* The rows of a view that lie at or after the base cursor n.
RECURSIVE RowsFrom(_, _, _)
RowsFrom(v, d, n) ==
    IF v.kind = "base" THEN SubSeq(d, n + 1, Len(d))
    ELSE IF v.kind = "drop" THEN RowsFrom(v.parent, d, n)
    ELSE SelectSeq(RowsFrom(v.parent, d, n), LAMBDA r : At(r, v.col) = v.val)

IsPrefix(s, t) == Len(s) <= Len(t) /\ SubSeq(t, 1, Len(s)) = s

Visible(cols) == {cols[j] : j \in 1..Len(cols)} \ {""}

----------------------------------------------------------------------------
(* The claims about views: one reader (SpecViews), several (SpecShared).   *)

\* C1: after First on v.Select(c, x), the Next calls of an undisturbed reader
\* return exactly the rows of v whose field at c's position equals x, in v's
\* order and each once, then nil and nothing but nil until the next First;
\* the header row is never returned.
C1_SelectYieldsMatchingRows ==
    (view.kind = "select" /\ started /\ ~disturbed) =>
        LET want == SelectSeq(RowsIn(view.parent, data),
                              LAMBDA r : At(r, view.col) = view.val)
        IN  /\ IsPrefix(got, want)
            /\ ended => got = want
            /\ ~late
            /\ \A i \in 1..Len(got) : got[i] # At(data, 0)

\* A select view that kept some rows of its parent and left out others has
\* been consumed to the end.
C1_Witness ==
    /\ view.kind = "select" /\ started /\ ended /\ ~disturbed
    /\ got # <<>>
    /\ Len(got) < Len(RowsIn(view.parent, data))

\* C2, as claimed: a derived view owns its cursor, so a call on another view
\* derived from the same parent never changes the rows still ahead of the
\* reader's view, and a reader that has consumed its derived view to the end
\* has received the view's complete row sequence.
C2_Original ==
    (view.kind # "base" /\ started) =>
        /\ ~disturbed
        /\ ended => got = RowsIn(view, data)

\* C2, amended: derived views share the one cursor of the base view.  Every
\* sibling view resumes from wherever the latest call on any view left that
\* cursor, and a reader receives its complete row sequence as long as no call
\* on another view changed the rows ahead of the cursor.
C2_SharedCursor ==
    (view.kind # "base" /\ started) =>
        /\ \A w \in Siblings : Drain(w, data, next) = RowsFrom(w, data, next)
        /\ ~disturbed => got \o Drain(view, data, next) = RowsIn(view, data)

\* A reader consumed a derived view with several rows to the end undisturbed.
C2_Witness ==
    /\ view.kind # "base" /\ started /\ ended /\ ~disturbed
    /\ Len(got) = MaxViewRows

C9_ResetIdempotent ==
    (started /\ ~disturbed /\ prev.some) =>
        /\ IsPrefix(got, prev.rows)
        /\ ended => got = prev.rows

\* The second complete pass over a select view has ended.
C9_Witness ==
    /\ view.kind = "select" /\ started /\ ended /\ ~disturbed
    /\ prev.some /\ got # <<>>

----------------------------------------------------------------------------
(* The claims about learning (under SpecLearn) and about classifying with  *)
(* the tree learned (under SpecDecide).                                    *)

ClassIndex(d) == find(At(d, 0), Class)

\* The indexes of the attribute columns: visible and not the class.
Attributes(cols) == {j \in 0..(Len(cols) - 1) : At(cols, j) # "" /\ At(cols, j) # Class}

\* No two rows agree on every attribute column and differ in the class.
Consistent(d) ==
    \A i, j \in 1..(Len(d) - 1) :
        (\A k \in Attributes(At(d, 0)) : At(At(d, i), k) = At(At(d, j), k))
            => At(At(d, i), ClassIndex(d)) = At(At(d, j), ClassIndex(d))

ClassColumn(d) == [i \in 1..(Len(d) - 1) |-> At(At(d, i), ClassIndex(d))]

FitsTrainingRows ==
    /\ tree.called => tree.dec.err = ""
    /\ answers.called => answers.err = "" /\ answers.result = ClassColumn(data)

\* C3, as claimed: on a table with at least one data row and a visible class
\* column Learn ends after finitely many calls, with a tree or a failure; its
\* recursion never outgrows the stack.
C3_Original ==
    (tree.called /\ Len(data) > 1 /\ ClassIndex(data) # NotFound) =>
        tree.dec.err # StackOverflow

\* C4, as claimed: the tree learned from any non-empty consistent table
\* classifies every training row back to its own class label.
C4_Original ==
    (Len(data) > 1 /\ Consistent(data)) => FitsTrainingRows

\* C4, amended: the tree learned from a non-empty consistent table that has
\* at least one attribute column and no empty class label classifies every
\* training row back to its own class label.
C4_FitsConsistentTable ==
    (/\ Len(data) > 1
     /\ Consistent(data)
     /\ Attributes(At(data, 0)) # {}
     /\ \A i \in 1..Len(ClassColumn(data)) : ClassColumn(data)[i] # "") =>
        FitsTrainingRows

\* The rows of a table with both labels were classified by a tree that
\* decides on a second column below the first.
C4_Witness ==
    /\ answers.called /\ answers.err = ""
    /\ Consistent(data)
    /\ {answers.result[i] : i \in 1..Len(answers.result)} = Labels
    /\ \E k \in 1..Len(tree.dec.Cases) : tree.dec.Cases[k].Decide # NilDecision

\* C5, as claimed: Learn on a table with no data row fails and returns no
\* Decision.
C5_Original ==
    (tree.called /\ Len(data) = 1) => tree.dec.err # ""

\* The row has a value that, at the root or below cases that match, no case
\* of the Decision reached has.
RECURSIVE Unmatched(_, _, _)
Unmatched(dec, header, row) ==
    /\ dec # NilDecision
    /\ find(header, dec.Column) # NotFound
    /\ LET value == At(row, find(header, dec.Column))
           hits == {k \in 1..Len(dec.Cases) : dec.Cases[k].Value = value}
       IN  \/ hits = {}
           \/ LET c == dec.Cases[CHOOSE k \in hits : \A m \in hits : k <= m]
              IN  c.Class = "" /\ Unmatched(c.Decide, header, row)

\* C6: classifying a row whose value in the column of the Decision reached,
\* at any depth, matches none of its cases fails with "no rule for column"
\* and returns no class.
C6_UnmatchedValuePanics ==
    (verdict.called /\ Unmatched(tree.dec, At(data, 0), verdict.row)) =>
        /\ \E c \in Visible(At(data, 0)) : verdict.err = noRule(c)
        /\ verdict.result = <<>>

\* A row matched a case of the root and no case of the Decision below it.
C6_Witness ==
    /\ verdict.called
    /\ verdict.err = noRule("b")
    /\ tree.dec.Column = "a"

\* The gain of the column at index j of view v.
Gain(v, j, ord) ==
    sub(TotalEntropy(v, Class, data, ord),
        AverageEntropy(v, At(Columns(v, data), j), Class, data, ord))

\* Column j is the first of the eligible columns of v whose gain is the
\* maximum over the eligible columns.
FirstOfMaximumGain(v, j, ord) ==
    LET eligible == Attributes(Columns(v, data))
    IN  /\ j \in eligible
        /\ \A k \in eligible : ~greater(Gain(v, k, ord), Gain(v, j, ord))
        /\ \A k \in eligible : k < j => greater(Gain(v, j, ord), Gain(v, k, ord))

\* Every Decision of the tree learned from v splits on the first column of
\* maximum gain of the view it was learned from.
RECURSIVE SplitsOnFirstMaximum(_, _, _)
SplitsOnFirstMaximum(v, dec, ord) ==
    /\ FirstOfMaximumGain(v, find(Columns(v, data), dec.Column), ord)
    /\ \A k \in 1..Len(dec.Cases) :
         dec.Cases[k].Decide # NilDecision =>
            SplitsOnFirstMaximum(
                Drop(Select(v, data, dec.Column, dec.Cases[k].Value), data, dec.Column),
                dec.Cases[k].Decide, ord)

\* C10: at every level Learn splits on the first column, in column order, of
\* maximum gain among the visible columns other than the class, and selects
\* one whenever there is one, even when every gain is zero.
C10_SplitsOnFirstMaximumGain ==
    /\ (tree.called /\ tree.dec.err = "") =>
         \A ord \in Orders : SplitsOnFirstMaximum(view, tree.dec, ord)
    /\ \A ord \in Orders :
         LET chosen == maxColumnOf(view, Class, data, ord)
         IN  IF Attributes(Columns(view, data)) = {}
             THEN chosen = ""
             ELSE FirstOfMaximumGain(view, find(Columns(view, data), chosen), ord)

\* Learn split on "a", whose gain ties with that of "b", and below it, with
\* "a" hidden, on "b".
C10_Witness ==
    /\ tree.called /\ tree.dec.err = ""
    /\ tree.dec.Column = "a"
    /\ ~greater(Gain(view, 0, Strings), Gain(view, 1, Strings))
    /\ ~greater(Gain(view, 1, Strings), Gain(view, 0, Strings))
    /\ greater(Gain(view, 0, Strings), Zero)
    /\ \E k \in 1..Len(tree.dec.Cases) : tree.dec.Cases[k].Decide.Column = "b"

----------------------------------------------------------------------------
(* The claim about Likelihood, under SpecLikelihood. *)

\* C7, as claimed: two calls of Likelihood on the same view and column
\* return the same sequence of (value, probability) pairs.
C7_Original ==
    \A i, j \in 1..Len(liks) :
        liks[i].column = liks[j].column => liks[i].sorted = liks[j].sorted

====
